---------------------------- MODULE Spec2Model ----------------------------
(***************************************************************************)
(* Reminder scheduling of the Dhanvantari single-page application           *)
(* (src/index.tsx): the App / MainApp / ProfilePage components, the         *)
(* browser's localStorage, its timer table and its wall clock.              *)
(*                                                                          *)
(* One action is one browser event (a form submission, a click, a timer     *)
(* callback, a page load) together with the re-render and the effects that  *)
(* React runs for it before the next event is handled.                      *)
(***************************************************************************)
EXTENDS Integers, Sequences, FiniteSets, TLC

\* ------------------------------------------------------------------------
\* Bounds of the model
\* ------------------------------------------------------------------------
MaxDay == 1          \* the clock runs over days 0..MaxDay
MaxTimers == 2       \* setTimeout calls per page load of the application
MaxRequests == 3     \* uploads to one mounted PrescriptionScanner / Analyzer

\* ------------------------------------------------------------------------
\* Wall clock and Date arithmetic (milliseconds, local time, 24-hour days)
\* ------------------------------------------------------------------------
MsPerMinute == 60000
MsPerHour == 3600000
MsPerDay == 86400000

\* Number(x) of something that is not a numeral; also an invalid Date.
NaN == -1

\* Characters are one-character strings, a string value is a sequence of them.
Digits == <<"0", "1", "2", "3", "4", "5", "6", "7", "8", "9">>

IsDigit(c) == \E i \in 1..10 : Digits[i] = c

DigitValue(c) == (CHOOSE i \in 1..10 : Digits[i] = c) - 1

\* Number(s) for a string of decimal digits; Number("") is 0.
RECURSIVE Number(_)
Number(s) ==
    IF s = <<>> THEN 0
    ELSE IF \E i \in 1..Len(s) : ~IsDigit(s[i]) THEN NaN
    ELSE LET n == Len(s)
             rest == Number(SubSeq(s, 1, n - 1))
         IN  rest * 10 + DigitValue(s[n])

\* s.split(sep): the pieces of s between the occurrences of sep.
RECURSIVE Split(_, _)
Split(s, sep) ==
    IF \A i \in 1..Len(s) : s[i] # sep THEN <<s>>
    ELSE LET k == CHOOSE i \in 1..Len(s) :
                      s[i] = sep /\ \A j \in 1..(i - 1) : s[j] # sep
         IN  <<SubSeq(s, 1, k - 1)>> \o Split(SubSeq(s, k + 1, Len(s)), sep)

\* const [hours, minutes] = time.split(':').map(Number)
HoursOf(time) == Number(Split(time, ":")[1])

MinutesOf(time) ==
    LET parts == Split(time, ":")
    IN  IF Len(parts) >= 2 THEN Number(parts[2]) ELSE NaN

\* date.setHours(hours, minutes, 0, 0)
SetHours(date, hours, minutes) ==
    IF hours = NaN \/ minutes = NaN THEN NaN
    ELSE (date \div MsPerDay) * MsPerDay + hours * MsPerHour + minutes * MsPerMinute

\* date.setDate(date.getDate() + 1)
SetDateTomorrow(date) == IF date = NaN THEN NaN ELSE date + MsPerDay

\* a < b on Dates: false when either is invalid
DateLess(a, b) == a # NaN /\ b # NaN /\ a < b

\* a.getTime() - b.getTime()
DateDiff(a, b) == IF a = NaN \/ b = NaN THEN NaN ELSE a - b

\* the delay setTimeout uses for its argument
TimerDelay(timeout) == IF timeout = NaN \/ timeout < 0 THEN 0 ELSE timeout

\* ------------------------------------------------------------------------
\* Values the events draw their inputs from
\* ------------------------------------------------------------------------
\* Usernames as typed into the login form (a trailing blank, only a blank).
TypedUsernames == {<<"a", " ">>, <<" ">>}

\* The username of a second account.
OtherTypedUsernames == {<<"b">>}

\* Values of the medication-name field; "" is the empty field.
Names == {"Aspirin"}

\* A second medication.
OtherNames == {"Vitamin D"}

\* Values of the <input type="time"> field: "09:30".
TimeValues == {<<"0", "9", ":", "3", "0">>}

\* The empty value of the time field.
EmptyTime == <<>>

\* Instants of a day the clock is observed at: 09:00, 09:30, 09:30:00.001.
ClockGrid ==
    {9 * MsPerHour, 9 * MsPerHour + 30 * MsPerMinute,
     9 * MsPerHour + 30 * MsPerMinute + 1}

Instants == {d * MsPerDay + o : d \in 0..MaxDay, o \in ClockGrid}

\* The pages of MainApp.renderPage: 'profile' renders ProfilePage, every other
\* page is like 'home' for the reminders.
Pages == {"home", "profile"}

\* No page: MainApp is not mounted.
NoPage == "none"

\* The pages of the two upload forms: 'scanner' renders PrescriptionScanner,
\* 'imaging' renders MedicalImagingAnalyzer.
AIPages == {"scanner", "imaging"}

\* The files a form is given: the scanner sends every file to the model; the
\* analyzer simulates the analysis of an image, sends a report (txt, pdf) to
\* the model and refuses any other extension.
FileKinds(page) ==
    IF page = "imaging" THEN {"image", "report", "unsupported"} ELSE {"image"}

\* The analysis that is a 2000 ms timeout instead of a request.
Simulated(page, kind) == page = "imaging" /\ kind = "image"

\* result is null, error is ''.
NoOutcome == 0

\* selectedHospital is null.
NoHospital == ""

\* confirmation is null.
NoConfirmation == <<>>

\* ------------------------------------------------------------------------
\* localStorage
\* ------------------------------------------------------------------------
\* An item is absent (getItem returns null) or holds one value.
NULL == {}

Item(v) == {v}

ValueOf(item) == CHOOSE v \in item : TRUE

\* username.trim()
RECURSIVE Trim(_)
Trim(s) ==
    IF s = <<>> THEN s
    ELSE IF Head(s) = " " THEN Trim(Tail(s))
    ELSE IF s[Len(s)] = " " THEN Trim(SubSeq(s, 1, Len(s) - 1))
    ELSE s

Users == {Trim(u) : u \in TypedUsernames \cup OtherTypedUsernames} \ {<<>>}

CurrentUserKey == <<"currentUser">>

\* RemindersKey without the username: one record for all users.
RemindersKeyShared(user) == <<"reminders_">>

\* `reminders_${currentUser}`
RemindersKey(user) == <<"reminders_">> \o user

StorageKeys == {CurrentUserKey} \cup {RemindersKey(u) : u \in Users}

\* WithoutTimeoutId keeping the object as it is.
WithTimeoutId(r) == r

\* ({ timeoutId, ...rest }) => rest
WithoutTimeoutId(r) == [id |-> r.id, name |-> r.name, time |-> r.time]

\* JSON.stringify of the list: every object is written as all its properties
\* in insertion order (id, name, time, and timeoutId when the object has it).
JSONStringify(list) ==
    [i \in 1..Len(list) |->
        IF "timeoutId" \in DOMAIN list[i]
        THEN <<list[i].id, list[i].name, list[i].time, list[i].timeoutId>>
        ELSE <<list[i].id, list[i].name, list[i].time>>]

\* The text is JSON: JSON.parse does not throw.  An entry of one element
\* stands for a text that breaks off in the middle of an object.
IsJSON(text) == \A i \in 1..Len(text) : Len(text[i]) >= 2

\* JSON.parse of such a text; an entry of two elements is an object without
\* the property time.
JSONParse(text) ==
    [i \in 1..Len(text) |->
        IF Len(text[i]) >= 3
        THEN [id |-> text[i][1], name |-> text[i][2], time |-> text[i][3]]
        ELSE [id |-> text[i][1], name |-> text[i][2]]]

\* ------------------------------------------------------------------------
\* State
\* ------------------------------------------------------------------------
VARIABLES
    now,          \* the wall clock, ms since midnight of day 0
    storage,      \* localStorage: key -> item
    timers,       \* the browser's pending timeouts
    nextTimerId,  \* the handle the next setTimeout returns
    currentUser,  \* App state; <<>> is null
    currentPage,  \* MainApp state; NoPage while MainApp is not mounted
    reminders,    \* ProfilePage state
    medName,      \* ProfilePage state
    medTime,      \* ProfilePage state
    loadCount,    \* runs of the load effect in this session: 0, 1, 2 (or more)
    lastOp,       \* the latest event: [op, msg]
    loading,      \* upload form state
    result,       \* upload form state: the upload whose result is shown
    error,        \* upload form state: the upload whose error is shown
    pending,      \* the uploads of the mounted form that are being awaited
    nextRequest   \* the number of the next upload to the mounted form

formVars == <<loading, result, error, pending, nextRequest>>

VARIABLES
    zone,              \* local time minus UTC, in ms
    hospitals,         \* NearbyHospitals state: the list is not empty
    selectedHospital,  \* NearbyHospitals state; "" is null
    isBooking,         \* NearbyHospitals state
    confirmation,      \* NearbyHospitals state: <<>> is null, else <<booking>>
    reminderSet        \* NearbyHospitals state

hospitalVars == <<zone, hospitals, selectedHospital, isBooking, confirmation,
                  reminderSet>>

VARIABLES
    isScanning,        \* BiometricScanner state
    showPrompt,        \* BiometricScanner state
    showAnalysis,      \* BiometricScanner state
    interval,          \* the calibration effect: "none", "running", "prompt"
    calibrationCount,  \* calibrationCount of the running interval
    stream             \* cameraRef holds a stream whose frames are sent

biometricVars == <<isScanning, showPrompt, showAnalysis, interval,
                   calibrationCount, stream>>

vars == <<now, storage, timers, nextTimerId, currentUser, currentPage,
          reminders, medName, medTime, loadCount, lastOp, loading, result,
          error, pending, nextRequest, zone, hospitals, selectedHospital,
          isBooking, confirmation, reminderSet, isScanning, showPrompt,
          showAnalysis, interval, calibrationCount, stream>>

\* The kinds of event lastOp tells apart; every other event is "other".
OpKinds ==
    {"fire", "removeReminder", "removeUnknown", "addRejected", "setReminder",
     "reminderRefused", "noConfirmation"}

\* The latest event and, for a timer callback, the message it announced.
Op(op, msg) == [op |-> IF op \in OpKinds THEN op ELSE "other", msg |-> msg]

\* ProfilePage is rendered (MainApp.renderPage, case 'profile').
ProfileMounted == currentUser # <<>> /\ currentPage = "profile"

\* `Time to take your ${name}!`
Message(name) == <<"Time to take your ", name, "!">>

NoAlert == <<>>

\* setTimeout(callback, timeout) called at instant `at`: the handle it
\* returns is `handle`; the callback closes over the reminder's name.  The
\* fields id, time and setAt record the reminder the callback was created
\* for and the instant of the call.
Timeout(handle, at, timeout, r) ==
    [handle |-> handle, fireAt |-> at + TimerDelay(timeout), name |-> r.name,
     id |-> r.id, time |-> r.time, setAt |-> at]

\* ClearTimeout doing nothing.
ClearTimeoutIgnored(ts, handle) == ts

\* clearTimeout(handle)
ClearTimeout(ts, handle) == {t \in ts : t.handle # handle}

\* ------------------------------------------------------------------------
\* ProfilePage: the load effect (useEffect, [currentUser])
\* ------------------------------------------------------------------------
\* LoadReminderDate with <= for <: a time equal to the instant of loading
\* counts as passed.
LoadReminderDateLate(r, at) ==
    LET reminderDate == SetHours(at, HoursOf(r.time), MinutesOf(r.time))
    IN  IF reminderDate # NaN /\ reminderDate <= at
        THEN SetDateTomorrow(reminderDate)
        ELSE reminderDate

\* reminderDate of the load path: today at r.time, or tomorrow when that
\* instant is before `at`.
LoadReminderDate(r, at) ==
    LET reminderDate == SetHours(at, HoursOf(r.time), MinutesOf(r.time))
    IN  IF DateLess(reminderDate, at) THEN SetDateTomorrow(reminderDate)
        ELSE reminderDate

\* LoadTimeout with the occurrence computed from the instant the reminder was
\* created (its id) instead of the instant of loading.
LoadTimeoutFromCreation(parsed, i, at, handle0) ==
    Timeout(handle0 + i - 1, at,
            DateDiff(LoadReminderDate(parsed[i], parsed[i].id), at), parsed[i])

\* The timeout the load path sets for the i-th parsed entry.
LoadTimeout(parsed, i, at, handle0) ==
    Timeout(handle0 + i - 1, at,
            DateDiff(LoadReminderDate(parsed[i], at), at), parsed[i])

\* RemindersWithTimeouts giving every loaded reminder a new id.
RemindersWithNewIds(parsed, at, handle0) ==
    [i \in 1..Len(parsed) |->
        [id |-> at, name |-> parsed[i].name, time |-> parsed[i].time,
         timeoutId |-> LoadTimeout(parsed, i, at, handle0).handle]]

\* parsedReminders.map(r => ... return { ...r, timeoutId })
RemindersWithTimeouts(parsed, at, handle0) ==
    [i \in 1..Len(parsed) |->
        [id |-> parsed[i].id, name |-> parsed[i].name, time |-> parsed[i].time,
         timeoutId |-> LoadTimeout(parsed, i, at, handle0).handle]]

\* r.time.split(':') throws a TypeError when r has no time: the position of
\* the first such entry, 0 if there is none.
ThrowsAt(parsed) ==
    IF \E i \in 1..Len(parsed) : "time" \notin DOMAIN parsed[i]
    THEN CHOOSE i \in 1..Len(parsed) :
             /\ "time" \notin DOMAIN parsed[i]
             /\ \A j \in 1..(i - 1) : "time" \in DOMAIN parsed[j]
    ELSE 0

\* The load effect for `user` at instant `at`: whether setReminders was
\* called, the list it was called with and the timeouts set.
\* JSON.parse throws, or r.time.split throws for the entry at position
\* ThrowsAt: the catch logs, setReminders is not called, and the timeouts set
\* for the entries before that position stay.
LoadEffect(store, user, at, handle0) ==
    LET storedReminders == store[RemindersKey(user)]
    IN  IF storedReminders # NULL /\ IsJSON(ValueOf(storedReminders))
        THEN LET parsed == JSONParse(ValueOf(storedReminders))
                 k == ThrowsAt(parsed)
             IN  IF k = 0
                 THEN [set |-> TRUE,
                       list |-> RemindersWithTimeouts(parsed, at, handle0),
                       timeouts |-> {LoadTimeout(parsed, i, at, handle0) :
                                         i \in 1..Len(parsed)}]
                 ELSE [set |-> FALSE, list |-> <<>>,
                       timeouts |-> {LoadTimeout(parsed, i, at, handle0) :
                                         i \in 1..(k - 1)}]
        ELSE [set |-> FALSE, list |-> <<>>, timeouts |-> {}]

\* ------------------------------------------------------------------------
\* ProfilePage: the save effect (useEffect, [reminders, currentUser])
\* ------------------------------------------------------------------------
RemindersToStore(list) == [i \in 1..Len(list) |-> WithoutTimeoutId(list[i])]

\* SaveEffect writing only a list that is not empty.
SaveEffectUnlessEmpty(store, user, list, ok) ==
    IF ok /\ list # <<>>
    THEN [store EXCEPT ![RemindersKey(user)] =
              Item(JSONStringify(RemindersToStore(list)))]
    ELSE store

\* ok is FALSE when localStorage.setItem throws: the catch logs and goes on.
SaveEffect(store, user, list, ok) ==
    IF ok
    THEN [store EXCEPT ![RemindersKey(user)] =
              Item(JSONStringify(RemindersToStore(list)))]
    ELSE store

\* ------------------------------------------------------------------------
\* ProfilePage: addReminder and removeReminder
\* ------------------------------------------------------------------------
\* AddReminderDate with <= for <: a time equal to the current instant counts
\* as passed.
AddReminderDateLate(time, at) ==
    LET reminderDate == SetHours(at, HoursOf(time), MinutesOf(time))
    IN  IF reminderDate # NaN /\ reminderDate <= at
        THEN SetDateTomorrow(reminderDate)
        ELSE reminderDate

\* reminderDate of addReminder.
AddReminderDate(time, at) ==
    LET reminderDate == SetHours(at, HoursOf(time), MinutesOf(time))
    IN  IF DateLess(reminderDate, at) THEN SetDateTomorrow(reminderDate)
        ELSE reminderDate

\* { id: Date.now(), name: medName, time: medTime, timeoutId }
NewReminder(name, time, at, handle) ==
    [id |-> at, name |-> name, time |-> time, timeoutId |-> handle]

\* AddTimeout whose callback reads the name field when it runs: the field has
\* been cleared by then.
AddTimeoutReadingField(name, time, at, handle) ==
    Timeout(handle, at, DateDiff(AddReminderDate(time, at), at),
            NewReminder("", time, at, handle))

\* RemindersWith built from the list of the first render (the empty list)
\* instead of the current one.
RemindersWithStaleList(list, r) == <<r>>

\* [...reminders, newReminder]
RemindersWith(list, r) == Append(list, r)

\* The timeout addReminder sets.
AddTimeout(name, time, at, handle) ==
    Timeout(handle, at, DateDiff(AddReminderDate(time, at), at),
            NewReminder(name, time, at, handle))

\* reminders.find(r => r.id === id): the index of the first match, 0 if none
FindIndex(list, id) ==
    IF \E i \in 1..Len(list) : list[i].id = id
    THEN CHOOSE i \in 1..Len(list) :
             list[i].id = id /\ \A j \in 1..(i - 1) : list[j].id # id
    ELSE 0

\* reminders.filter(r => r.id !== id)
RECURSIVE FilterOut(_, _)
FilterOut(list, id) ==
    IF list = <<>> THEN <<>>
    ELSE IF Head(list).id # id THEN <<Head(list)>> \o FilterOut(Tail(list), id)
    ELSE FilterOut(Tail(list), id)

\* TimersAfterRemove clearing the first reminder's timeout when none matches
\* (find's result defaulted to the head of the list).
TimersAfterRemoveDefaulting(ts, list, id) ==
    LET k == FindIndex(list, id)
    IN  IF k # 0 THEN ClearTimeout(ts, list[k].timeoutId)
        ELSE IF list # <<>> THEN ClearTimeout(ts, list[1].timeoutId)
        ELSE ts

\* The timers left by removeReminder(id): the first match's timeout is cleared.
TimersAfterRemove(ts, list, id) ==
    LET k == FindIndex(list, id)
    IN  IF k # 0 THEN ClearTimeout(ts, list[k].timeoutId) ELSE ts

\* ------------------------------------------------------------------------
\* Initial state: the application is opened for the first time
\* ------------------------------------------------------------------------
Init ==
    /\ now = CHOOSE t \in Instants : \A u \in Instants : t <= u
    /\ storage = [k \in StorageKeys |-> NULL]
    /\ timers = {}
    /\ nextTimerId = 1
    /\ currentUser = <<>>
    /\ currentPage = NoPage
    /\ reminders = <<>>
    /\ medName = ""
    /\ medTime = EmptyTime
    /\ loadCount = 0
    /\ lastOp = Op("init", NoAlert)
    /\ loading = FALSE
    /\ result = NoOutcome
    /\ error = NoOutcome
    /\ pending = {}
    /\ nextRequest = 1
    /\ zone = 0
    /\ hospitals = FALSE
    /\ selectedHospital = NoHospital
    /\ isBooking = FALSE
    /\ confirmation = NoConfirmation
    /\ reminderSet = FALSE
    /\ isScanning = FALSE
    /\ showPrompt = FALSE
    /\ showAnalysis = FALSE
    /\ interval = "none"
    /\ calibrationCount = 0
    /\ stream = FALSE

\* ProfilePage is not rendered: its state is gone.
ProfileUnmounted ==
    /\ reminders' = <<>>
    /\ medName' = ""
    /\ medTime' = EmptyTime

\* No upload form is rendered: its state is gone, and what its awaited
\* uploads will set is the state of a component that no longer exists.
FormUnmounted ==
    /\ loading' = FALSE
    /\ result' = NoOutcome
    /\ error' = NoOutcome
    /\ pending' = {}
    /\ nextRequest' = 1

\* NearbyHospitals is not rendered, or rendered anew: its state is gone.
HospitalsUnmounted ==
    /\ hospitals' = FALSE
    /\ selectedHospital' = NoHospital
    /\ isBooking' = FALSE
    /\ confirmation' = NoConfirmation
    /\ reminderSet' = FALSE
    /\ zone' = zone

\* BiometricScanner is not rendered, or rendered anew: its state is gone, the
\* cleanup of its effects has stopped the camera and cleared the interval.
BiometricUnmounted ==
    /\ isScanning' = FALSE
    /\ showPrompt' = FALSE
    /\ showAnalysis' = FALSE
    /\ interval' = "none"
    /\ calibrationCount' = 0
    /\ stream' = FALSE

\* ------------------------------------------------------------------------
\* The clock and the timers
\* ------------------------------------------------------------------------
\* Time passes.
Advance(t) ==
    /\ t > now
    /\ now' = t
    /\ lastOp' = Op("advance", NoAlert)
    /\ UNCHANGED <<storage, timers, nextTimerId, currentUser,
                   currentPage, reminders, medName, medTime, loadCount>>
    /\ UNCHANGED formVars
    /\ UNCHANGED hospitalVars
    /\ UNCHANGED biometricVars

\* A timeout is due and its callback runs: alert(msg); speak(msg).
Fire(t) ==
    /\ t \in timers
    /\ t.fireAt <= now
    /\ timers' = timers \ {t}
    /\ lastOp' = Op("fire", Message(t.name))
    /\ UNCHANGED <<now, storage, nextTimerId, currentUser, currentPage,
                   reminders, medName, medTime, loadCount>>
    /\ UNCHANGED formVars
    /\ UNCHANGED hospitalVars
    /\ UNCHANGED biometricVars

\* ------------------------------------------------------------------------
\* App: start, login, logout
\* ------------------------------------------------------------------------
\* The page is (re)loaded: every timer and all component state is gone, and
\* App's effect restores currentUser from localStorage.
Restart ==
    /\ LET loggedInUser == storage[CurrentUserKey]
       IN  /\ currentUser' = IF loggedInUser # NULL THEN ValueOf(loggedInUser) ELSE <<>>
           /\ currentPage' = IF loggedInUser # NULL THEN "home" ELSE NoPage
    /\ timers' = {}
    /\ nextTimerId' = 1
    /\ loadCount' = 0
    /\ ProfileUnmounted
    /\ lastOp' = Op("restart", NoAlert)
    /\ UNCHANGED <<now, storage>>
    /\ FormUnmounted
    /\ HospitalsUnmounted
    /\ BiometricUnmounted

\* LoginPage.handleSubmit with `typed` in the username field, App.handleLogin.
Login(typed) ==
    /\ currentUser = <<>>
    /\ IF Trim(typed) # <<>>
       THEN /\ currentUser' = Trim(typed)
            /\ storage' = [storage EXCEPT ![CurrentUserKey] = Item(Trim(typed))]
            /\ currentPage' = "home"
            /\ lastOp' = Op("login", NoAlert)
       ELSE /\ UNCHANGED <<currentUser, storage, currentPage>>
            /\ lastOp' = Op("loginRejected", NoAlert)
    /\ loadCount' = 0
    /\ UNCHANGED <<now, timers, nextTimerId, reminders, medName,
                   medTime>>
    /\ UNCHANGED formVars
    /\ UNCHANGED hospitalVars
    /\ UNCHANGED biometricVars

\* Logout without localStorage.removeItem('currentUser').
LogoutKeepingEntry ==
    /\ currentUser # <<>>
    /\ currentUser' = <<>>
    /\ currentPage' = NoPage
    /\ loadCount' = 0
    /\ ProfileUnmounted
    /\ lastOp' = Op("logout", NoAlert)
    /\ UNCHANGED <<now, storage, timers, nextTimerId>>
    /\ FormUnmounted
    /\ HospitalsUnmounted
    /\ BiometricUnmounted

\* App.handleLogout: MainApp, and ProfilePage with it, is unmounted.
Logout ==
    /\ currentUser # <<>>
    /\ currentUser' = <<>>
    /\ storage' = [storage EXCEPT ![CurrentUserKey] = NULL]
    /\ currentPage' = NoPage
    /\ loadCount' = 0
    /\ ProfileUnmounted
    /\ lastOp' = Op("logout", NoAlert)
    /\ UNCHANGED <<now, timers, nextTimerId>>
    /\ FormUnmounted
    /\ HospitalsUnmounted
    /\ BiometricUnmounted

\* ------------------------------------------------------------------------
\* MainApp: navigation
\* ------------------------------------------------------------------------
\* setCurrentPage('profile'): ProfilePage mounts with empty state; the load
\* effect runs, then the save effect with the still empty list; when the load
\* effect has called setReminders the component renders again and the save
\* effect runs with the loaded list.
OpenProfile(ok1, ok2) ==
    /\ currentUser # <<>>
    /\ currentPage # "profile"
    /\ LET load == LoadEffect(storage, currentUser, now, nextTimerId)
           saved1 == SaveEffect(storage, currentUser, <<>>, ok1)
       IN  /\ nextTimerId + Cardinality(load.timeouts) - 1 <= MaxTimers
           /\ timers' = timers \cup load.timeouts
           /\ nextTimerId' = nextTimerId + Cardinality(load.timeouts)
           /\ reminders' = load.list
           /\ storage' = IF load.set
                         THEN SaveEffect(saved1, currentUser, load.list, ok2)
                         ELSE saved1
           /\ lastOp' = Op(IF load.set THEN "load" ELSE "loadNothing", NoAlert)
    /\ currentPage' = "profile"
    /\ medName' = ""
    /\ medTime' = EmptyTime
    /\ loadCount' = IF loadCount < 2 THEN loadCount + 1 ELSE loadCount
    /\ UNCHANGED <<now, currentUser>>
    /\ FormUnmounted
    /\ HospitalsUnmounted
    /\ BiometricUnmounted

\* setCurrentPage(page) for another page: ProfilePage, if rendered, unmounts.
\* No effect of ProfilePage has a cleanup: its timeouts stay pending.
LeaveTo(page) ==
    /\ currentUser # <<>>
    /\ page # "profile"
    /\ currentPage # page
    /\ currentPage' = page
    /\ ProfileUnmounted
    /\ lastOp' = Op("leave", NoAlert)
    /\ UNCHANGED <<now, storage, timers, nextTimerId, currentUser,
                   loadCount>>
    /\ FormUnmounted
    /\ HospitalsUnmounted
    /\ BiometricUnmounted

\* ------------------------------------------------------------------------
\* ProfilePage: the form and the list
\* ------------------------------------------------------------------------
\* onChange of the medication-name field (or a voice transcript).
SetMedName(v) ==
    /\ ProfileMounted
    /\ v # medName
    /\ medName' = v
    /\ lastOp' = Op("setMedName", NoAlert)
    /\ UNCHANGED <<now, storage, timers, nextTimerId, currentUser,
                   currentPage, reminders, medTime, loadCount>>
    /\ UNCHANGED formVars
    /\ UNCHANGED hospitalVars
    /\ UNCHANGED biometricVars

\* onChange of the time field.
SetMedTime(v) ==
    /\ ProfileMounted
    /\ v # medTime
    /\ medTime' = v
    /\ lastOp' = Op("setMedTime", NoAlert)
    /\ UNCHANGED <<now, storage, timers, nextTimerId, currentUser,
                   currentPage, reminders, medName, loadCount>>
    /\ UNCHANGED formVars
    /\ UNCHANGED hospitalVars
    /\ UNCHANGED biometricVars

\* FormIncomplete looking at the name only.
FormIncompleteNameOnly(name, time) == name = ""

\* !medName || !medTime
FormIncomplete(name, time) == name = "" \/ time = EmptyTime

\* addReminder with an empty field: if (!medName || !medTime) return;
AddRejected ==
    /\ ProfileMounted
    /\ FormIncomplete(medName, medTime)
    /\ lastOp' = Op("addRejected", NoAlert)
    /\ UNCHANGED <<now, storage, timers, nextTimerId, currentUser,
                   currentPage, reminders, medName, medTime, loadCount>>
    /\ UNCHANGED formVars
    /\ UNCHANGED hospitalVars
    /\ UNCHANGED biometricVars

\* addReminder with both fields filled, and the save effect of the re-render.
AddReminder(ok) ==
    /\ ProfileMounted
    /\ ~FormIncomplete(medName, medTime)
    /\ nextTimerId <= MaxTimers
    /\ timers' = timers \cup {AddTimeout(medName, medTime, now, nextTimerId)}
    /\ nextTimerId' = nextTimerId + 1
    /\ reminders' = RemindersWith(reminders,
                                  NewReminder(medName, medTime, now, nextTimerId))
    /\ medName' = ""
    /\ medTime' = EmptyTime
    /\ storage' = SaveEffect(storage, currentUser, reminders', ok)
    /\ lastOp' = Op("addReminder", NoAlert)
    /\ UNCHANGED <<now, currentUser, currentPage, loadCount>>
    /\ UNCHANGED formVars
    /\ UNCHANGED hospitalVars
    /\ UNCHANGED biometricVars

\* removeReminder(id), and the save effect of the re-render.
RemoveReminder(id, ok) ==
    /\ ProfileMounted
    /\ timers' = TimersAfterRemove(timers, reminders, id)
    /\ reminders' = FilterOut(reminders, id)
    /\ storage' = SaveEffect(storage, currentUser, reminders', ok)
    /\ lastOp' = Op(IF FindIndex(reminders, id) # 0 THEN "removeReminder"
                    ELSE "removeUnknown", NoAlert)
    /\ UNCHANGED <<now, nextTimerId, currentUser, currentPage,
                   medName, medTime, loadCount>>
    /\ UNCHANGED formVars
    /\ UNCHANGED hospitalVars
    /\ UNCHANGED biometricVars

\* ------------------------------------------------------------------------
\* PrescriptionScanner and MedicalImagingAnalyzer: the upload forms
\* ------------------------------------------------------------------------
\* An upload form is rendered.
FormMounted == currentUser # <<>> /\ currentPage \in AIPages

\* A request of the form: the number of the upload and the kind of file.
Request(no, kind) == [no |-> no, kind |-> kind]

\* handleFileChange with a file: scanImage / handleAnalysis up to its await.
\* The uploader stays clickable while loading.  An unsupported extension
\* throws before any await: catch and finally run within the same call.
UploadFile(kind) ==
    /\ FormMounted
    /\ kind \in FileKinds(currentPage)
    /\ nextRequest <= MaxRequests
    /\ IF kind = "unsupported"
       THEN /\ loading' = FALSE
            /\ result' = NoOutcome
            /\ error' = nextRequest
            /\ pending' = pending
       ELSE /\ loading' = TRUE
            /\ result' = NoOutcome
            /\ error' = NoOutcome
            /\ pending' = pending \cup {Request(nextRequest, kind)}
    /\ nextRequest' = nextRequest + 1
    /\ lastOp' = Op("uploadFile", NoAlert)
    /\ UNCHANGED <<now, storage, timers, nextTimerId, currentUser,
                   currentPage, reminders, medName, medTime, loadCount>>
    /\ UNCHANGED hospitalVars
    /\ UNCHANGED biometricVars

\* The awaited promise of the request r settles and the rest of scanImage /
\* handleAnalysis runs: setResult when ok, setError when the request or the
\* parsing of its response failed, setLoading(false) in either case.  The
\* simulated analyses end in the order they were started and never fail.
Settle(r, ok) ==
    /\ FormMounted
    /\ r \in pending
    /\ Simulated(currentPage, r.kind)
           => /\ ok
              /\ \A q \in pending :
                     Simulated(currentPage, q.kind) => q.no >= r.no
    /\ IF ok
       THEN result' = r.no /\ error' = error
       ELSE error' = r.no /\ result' = result
    /\ loading' = FALSE
    /\ pending' = pending \ {r}
    /\ lastOp' = Op("settle", NoAlert)
    /\ UNCHANGED <<now, storage, timers, nextTimerId, currentUser,
                   currentPage, reminders, medName, medTime, loadCount,
                   nextRequest>>
    /\ UNCHANGED hospitalVars
    /\ UNCHANGED biometricVars

\* ------------------------------------------------------------------------
\* MedicalAssistant and MedicineDelivery: the forms with a submit button
\* ------------------------------------------------------------------------
\* The pages of these forms: 'assistant' renders MedicalAssistant, 'delivery'
\* renders MedicineDelivery.
SubmitPages == {"assistant", "delivery"}

\* MedicalAssistant is rendered.
AssistantMounted == currentUser # <<>> /\ currentPage = "assistant"

\* MedicineDelivery is rendered.
DeliveryMounted == currentUser # <<>> /\ currentPage = "delivery"

\* MedicalAssistant.handleSubmit up to its await; the submit button is
\* disabled while loading.
SubmitPrompt ==
    /\ AssistantMounted
    /\ ~loading
    /\ nextRequest <= MaxRequests
    /\ loading' = TRUE
    /\ result' = NoOutcome
    /\ error' = NoOutcome
    /\ pending' = pending \cup {Request(nextRequest, "prompt")}
    /\ nextRequest' = nextRequest + 1
    /\ lastOp' = Op("submitPrompt", NoAlert)
    /\ UNCHANGED <<now, storage, timers, nextTimerId, currentUser,
                   currentPage, reminders, medName, medTime, loadCount>>
    /\ UNCHANGED hospitalVars
    /\ UNCHANGED biometricVars

\* The request of MedicalAssistant settles: setResult or setError, then
\* setLoading(false).
SettlePrompt(r, ok) ==
    /\ AssistantMounted
    /\ r \in pending
    /\ IF ok
       THEN result' = r.no /\ error' = error
       ELSE error' = r.no /\ result' = result
    /\ loading' = FALSE
    /\ pending' = pending \ {r}
    /\ lastOp' = Op("settlePrompt", NoAlert)
    /\ UNCHANGED <<now, storage, timers, nextTimerId, currentUser,
                   currentPage, reminders, medName, medTime, loadCount,
                   nextRequest>>
    /\ UNCHANGED hospitalVars
    /\ UNCHANGED biometricVars

\* A call of MedicineDelivery.handleSubmit: the number of the submission and
\* the value of `error` in the render the handler belongs to.
Order(no, shownError) == [no |-> no, kind |-> "order", error |-> shownError]

\* MedicineDelivery.handleSubmit up to its await; the submit button is
\* disabled while loading.
SubmitOrder ==
    /\ DeliveryMounted
    /\ ~loading
    /\ nextRequest <= MaxRequests
    /\ loading' = TRUE
    /\ result' = NoOutcome
    /\ error' = NoOutcome
    /\ pending' = pending \cup {Order(nextRequest, error)}
    /\ nextRequest' = nextRequest + 1
    /\ lastOp' = Op("submitOrder", NoAlert)
    /\ UNCHANGED <<now, storage, timers, nextTimerId, currentUser,
                   currentPage, reminders, medName, medTime, loadCount>>
    /\ UNCHANGED hospitalVars
    /\ UNCHANGED biometricVars

\* setLoading(false) of the finally block: if (!error), with the `error` of
\* the handler's render.
LoadingAfterOrder(r, flag) == IF r.error = NoOutcome THEN FALSE ELSE flag

\* The request of MedicineDelivery settles.  ok: setResult, then the finally
\* block.  Not ok: the catch block calls setError and setLoading(false).
SettleOrder(r, ok) ==
    /\ DeliveryMounted
    /\ r \in pending
    /\ IF ok
       THEN /\ result' = r.no
            /\ error' = error
            /\ loading' = LoadingAfterOrder(r, loading)
       ELSE /\ error' = r.no
            /\ result' = result
            /\ loading' = FALSE
    /\ pending' = pending \ {r}
    /\ lastOp' = Op("settleOrder", NoAlert)
    /\ UNCHANGED <<now, storage, timers, nextTimerId, currentUser,
                   currentPage, reminders, medName, medTime, loadCount,
                   nextRequest>>
    /\ UNCHANGED hospitalVars
    /\ UNCHANGED biometricVars

\* ------------------------------------------------------------------------
\* localStorage written from outside the components
\* ------------------------------------------------------------------------
\* NearbyHospitals: search, booking, appointment reminder
\* ------------------------------------------------------------------------
\* The hospitals a search finds.
HospitalNames == {"City Hospital"}

\* Values of the date field, as day numbers (day 0 is the day the clock
\* starts in), and the time slot taken of those offered.
BookingDates == 1..2

TimeSlots == {<<"0", "9", ":", "0", "0">>}

\* Instants the clock is observed at on this page: 08:59:59.999 and 09:00 of
\* day 0, 09:00 of day 1.
HospitalInstants ==
    {9 * MsPerHour - 1, 9 * MsPerHour, MsPerDay + 9 * MsPerHour}

\* Time zones of the browser, as local time minus UTC: New York (winter),
\* UTC, India.
Zones == {0 - 5 * MsPerHour, 0, 5 * MsPerHour + 30 * MsPerMinute}

\* NearbyHospitals is rendered (MainApp.renderPage, case 'hospitals').
HospitalsMounted == currentUser # <<>> /\ currentPage = "hospitals"

\* A request of NearbyHospitals awaiting the model: a search, or a booking
\* with the details its handler read from the form.
HospitalRequest(no, kind, details) ==
    [no |-> no, kind |-> kind, details |-> details]

\* bookingDetails of a confirmation.
BookingDetails(hospitalName, date, time) ==
    [hospitalName |-> hospitalName, date |-> date, time |-> time]

\* new Date().toISOString().split("T")[0]: today's date in UTC.
TodayUTC == (now - zone) \div MsPerDay

\* new Date(date) for a date-only string: midnight UTC of that date, here on
\* the local time scale of the clock.
NewDate(date) == date * MsPerDay + zone

\* `Reminder: You have an appointment at ${hospitalName} tomorrow at ${time}.`
ReminderMsg(hospitalName, time) ==
    <<"Reminder: You have an appointment at ", hospitalName, " tomorrow at ",
      time, ".">>

\* alert of handleSetReminder's else branch
RefusedMsg ==
    <<"The appointment is less than 24 hours away. A reminder cannot be set for a past time.">>

\* setTimeout of handleSetReminder, called at instant `at`.
AppointmentTimeout(handle, at, timeout, details) ==
    [handle |-> handle, fireAt |-> at + TimerDelay(timeout), setAt |-> at,
     name |-> details.hospitalName, date |-> details.date,
     time |-> details.time]

\* searchHospitals up to its await.
SearchHospitals ==
    /\ HospitalsMounted
    /\ ~loading
    /\ nextRequest <= MaxRequests
    /\ loading' = TRUE
    /\ error' = NoOutcome
    /\ hospitals' = FALSE
    /\ selectedHospital' = NoHospital
    /\ confirmation' = NoConfirmation
    /\ pending' = pending \cup {HospitalRequest(nextRequest, "search", <<>>)}
    /\ nextRequest' = nextRequest + 1
    /\ lastOp' = Op("searchHospitals", NoAlert)
    /\ UNCHANGED <<now, storage, timers, nextTimerId, currentUser,
                   currentPage, reminders, medName, medTime, loadCount,
                   result, zone, isBooking, reminderSet>>
    /\ UNCHANGED biometricVars

\* The search settles: setHospitals or setError, then setLoading(false).
SettleSearch(r, ok) ==
    /\ HospitalsMounted
    /\ r \in pending
    /\ r.kind = "search"
    /\ IF ok
       THEN hospitals' = TRUE /\ error' = error
       ELSE error' = r.no /\ hospitals' = hospitals
    /\ loading' = FALSE
    /\ pending' = pending \ {r}
    /\ lastOp' = Op("settleSearch", NoAlert)
    /\ UNCHANGED <<now, storage, timers, nextTimerId, currentUser,
                   currentPage, reminders, medName, medTime, loadCount,
                   result, nextRequest, zone, selectedHospital, isBooking,
                   confirmation, reminderSet>>
    /\ UNCHANGED biometricVars

\* onClick of a card's Book Appointment button.
SelectHospital(h) ==
    /\ HospitalsMounted
    /\ ~loading
    /\ hospitals
    /\ selectedHospital' = h
    /\ confirmation' = NoConfirmation
    /\ lastOp' = Op("selectHospital", NoAlert)
    /\ UNCHANGED <<now, storage, timers, nextTimerId, currentUser,
                   currentPage, reminders, medName, medTime, loadCount,
                   zone, hospitals, isBooking, reminderSet>>
    /\ UNCHANGED formVars
    /\ UNCHANGED biometricVars

\* onClick of the booking form's Cancel button.
CancelBooking ==
    /\ HospitalsMounted
    /\ selectedHospital # NoHospital
    /\ selectedHospital' = NoHospital
    /\ lastOp' = Op("cancelBooking", NoAlert)
    /\ UNCHANGED <<now, storage, timers, nextTimerId, currentUser,
                   currentPage, reminders, medName, medTime, loadCount,
                   zone, hospitals, isBooking, confirmation, reminderSet>>
    /\ UNCHANGED formVars
    /\ UNCHANGED biometricVars

\* handleBookAppointment up to its await, the date field holding `date` (not
\* before the field's min) and the slot `time` selected.
BookAppointment(date, time) ==
    /\ HospitalsMounted
    /\ selectedHospital # NoHospital
    /\ ~isBooking
    /\ date >= TodayUTC
    /\ nextRequest <= MaxRequests
    /\ isBooking' = TRUE
    /\ error' = NoOutcome
    /\ pending' = pending \cup
           {HospitalRequest(nextRequest, "booking",
                            BookingDetails(selectedHospital, date, time))}
    /\ nextRequest' = nextRequest + 1
    /\ lastOp' = Op("bookAppointment", NoAlert)
    /\ UNCHANGED <<now, storage, timers, nextTimerId, currentUser,
                   currentPage, reminders, medName, medTime, loadCount,
                   loading, result, zone, hospitals, selectedHospital,
                   confirmation, reminderSet>>
    /\ UNCHANGED biometricVars

\* The booking settles: setConfirmation and setSelectedHospital(null), or
\* setError; then setIsBooking(false).
SettleBooking(r, ok) ==
    /\ HospitalsMounted
    /\ r \in pending
    /\ r.kind = "booking"
    /\ IF ok
       THEN /\ confirmation' = <<r.details>>
            /\ selectedHospital' = NoHospital
            /\ error' = error
       ELSE /\ error' = r.no
            /\ UNCHANGED <<confirmation, selectedHospital>>
    /\ isBooking' = FALSE
    /\ pending' = pending \ {r}
    /\ lastOp' = Op("settleBooking", NoAlert)
    /\ UNCHANGED <<now, storage, timers, nextTimerId, currentUser,
                   currentPage, reminders, medName, medTime, loadCount,
                   loading, result, nextRequest, zone, hospitals,
                   reminderSet>>
    /\ UNCHANGED biometricVars

\* reminderDateTime > now
ReminderAhead(reminderDateTime, at) == reminderDateTime > at

\* handleSetReminder.  Its button is rendered with a confirmation and is
\* disabled once reminderSet is true; without a confirmation the call
\* returns at once.
HandleSetReminder ==
    /\ HospitalsMounted
    /\ IF confirmation = NoConfirmation
       THEN /\ lastOp' = Op("noConfirmation", NoAlert)
            /\ UNCHANGED <<timers, nextTimerId, reminderSet>>
       ELSE LET details == confirmation[1]
                appointmentDateTime ==
                    SetHours(NewDate(details.date), HoursOf(details.time),
                             MinutesOf(details.time))
                reminderDateTime == appointmentDateTime - MsPerDay
            IN  /\ ~reminderSet
                /\ IF ReminderAhead(reminderDateTime, now)
                   THEN /\ nextTimerId <= MaxTimers
                        /\ timers' = timers \cup
                               {AppointmentTimeout(nextTimerId, now,
                                                   reminderDateTime - now,
                                                   details)}
                        /\ nextTimerId' = nextTimerId + 1
                        /\ reminderSet' = TRUE
                        /\ lastOp' = Op("setReminder", NoAlert)
                   ELSE /\ lastOp' = Op("reminderRefused", RefusedMsg)
                        /\ UNCHANGED <<timers, nextTimerId, reminderSet>>
    /\ UNCHANGED <<now, storage, currentUser, currentPage, reminders,
                   medName, medTime, loadCount, zone, hospitals,
                   selectedHospital, isBooking, confirmation>>
    /\ UNCHANGED formVars
    /\ UNCHANGED biometricVars

\* The callback of an appointment timer runs: alert(reminderMsg).
FireAppointment(t) ==
    /\ t \in timers
    /\ t.fireAt <= now
    /\ timers' = timers \ {t}
    /\ lastOp' = Op("fire", ReminderMsg(t.name, t.time))
    /\ UNCHANGED <<now, storage, nextTimerId, currentUser, currentPage,
                   reminders, medName, medTime, loadCount>>
    /\ UNCHANGED formVars
    /\ UNCHANGED hospitalVars
    /\ UNCHANGED biometricVars

\* ------------------------------------------------------------------------
\* BiometricScanner: scan, calibration, prompt, analysis
\* ------------------------------------------------------------------------
\* The ticks of the calibration interval that show a random temperature.
CalibrationTicks == 5

\* BiometricScanner is rendered (MainApp.renderPage, case 'biometric').
BiometricMounted == currentUser # <<>> /\ currentPage = "biometric"

\* videoRef.current is an element: the <video> is part of the latest render,
\* which is that of the scan view while isScanning is true.
VideoRendered == ~showAnalysis /\ isScanning

\* onClick of Start Biometric Analysis, rendered while !isScanning: startScan
\* up to its return or its await, then the calibration effect of the
\* re-render ([isScanning, showPrompt]).  startScan reads videoRef.current
\* before React renders again.
StartScan ==
    /\ BiometricMounted
    /\ ~showAnalysis
    /\ ~isScanning
    /\ isScanning' = TRUE
    /\ showPrompt' = FALSE
    /\ showAnalysis' = FALSE
    /\ result' = NoOutcome
    /\ error' = NoOutcome
    /\ IF ~VideoRendered
       THEN UNCHANGED <<pending, nextRequest>>
       ELSE /\ nextRequest <= MaxRequests
            /\ pending' = pending \cup {Request(nextRequest, "camera")}
            /\ nextRequest' = nextRequest + 1
    /\ interval' = "running"
    /\ calibrationCount' = 0
    /\ lastOp' = Op("startScan", NoAlert)
    /\ UNCHANGED <<now, storage, timers, nextTimerId, currentUser,
                   currentPage, reminders, medName, medTime, loadCount,
                   loading, stream>>
    /\ UNCHANGED hospitalVars

\* The callback of the calibration interval: a random temperature, or the
\* final one, clearInterval and the timeout of the prompt.
CalibrationTick ==
    /\ BiometricMounted
    /\ interval = "running"
    /\ IF calibrationCount < CalibrationTicks
       THEN calibrationCount' = calibrationCount + 1 /\ interval' = interval
       ELSE calibrationCount' = 0 /\ interval' = "prompt"
    /\ lastOp' = Op("calibrationTick", NoAlert)
    /\ UNCHANGED <<now, storage, timers, nextTimerId, currentUser,
                   currentPage, reminders, medName, medTime, loadCount,
                   isScanning, showPrompt, showAnalysis, stream>>
    /\ UNCHANGED formVars
    /\ UNCHANGED hospitalVars

\* The timeout of the prompt: setShowPrompt(true).
ShowPrompt ==
    /\ BiometricMounted
    /\ interval = "prompt"
    /\ showPrompt' = TRUE
    /\ interval' = "none"
    /\ lastOp' = Op("showPrompt", NoAlert)
    /\ UNCHANGED <<now, storage, timers, nextTimerId, currentUser,
                   currentPage, reminders, medName, medTime, loadCount,
                   isScanning, showAnalysis, calibrationCount, stream>>
    /\ UNCHANGED formVars
    /\ UNCHANGED hospitalVars

\* handleNo: stopCamera(); setShowPrompt(false).
HandleNo ==
    /\ BiometricMounted
    /\ VideoRendered
    /\ showPrompt
    /\ stream' = FALSE
    /\ isScanning' = FALSE
    /\ showPrompt' = FALSE
    /\ lastOp' = Op("handleNo", NoAlert)
    /\ UNCHANGED <<now, storage, timers, nextTimerId, currentUser,
                   currentPage, reminders, medName, medTime, loadCount,
                   showAnalysis, interval, calibrationCount>>
    /\ UNCHANGED formVars
    /\ UNCHANGED hospitalVars

\* handleProceed: stopCamera(); setShowAnalysis(true).
HandleProceed ==
    /\ BiometricMounted
    /\ VideoRendered
    /\ showPrompt
    /\ stream' = FALSE
    /\ isScanning' = FALSE
    /\ showAnalysis' = TRUE
    /\ lastOp' = Op("handleProceed", NoAlert)
    /\ UNCHANGED <<now, storage, timers, nextTimerId, currentUser,
                   currentPage, reminders, medName, medTime, loadCount,
                   showPrompt, interval, calibrationCount>>
    /\ UNCHANGED formVars
    /\ UNCHANGED hospitalVars

\* handleAnalysisSubmit up to its await; the button is disabled while loading.
SubmitAnalysis ==
    /\ BiometricMounted
    /\ showAnalysis
    /\ ~loading
    /\ nextRequest <= MaxRequests
    /\ loading' = TRUE
    /\ error' = NoOutcome
    /\ pending' = pending \cup {Request(nextRequest, "analysis")}
    /\ nextRequest' = nextRequest + 1
    /\ lastOp' = Op("submitAnalysis", NoAlert)
    /\ UNCHANGED <<now, storage, timers, nextTimerId, currentUser,
                   currentPage, reminders, medName, medTime, loadCount,
                   result>>
    /\ UNCHANGED hospitalVars
    /\ UNCHANGED biometricVars

\* A promise BiometricScanner awaits settles.  getUserMedia of startScan: the
\* stream goes to the video element and its frames to the pose estimator, or
\* setError and setIsScanning(false), whose re-render clears the interval.
\* generateContent of handleAnalysisSubmit: setResult or setError, then
\* setLoading(false).
SettleScan(r, ok) ==
    /\ BiometricMounted
    /\ r \in pending
    /\ IF r.kind = "camera"
       THEN /\ IF ok
               THEN /\ stream' = TRUE
                    /\ UNCHANGED <<error, isScanning, interval,
                                   calibrationCount>>
               ELSE /\ error' = r.no
                    /\ isScanning' = FALSE
                    /\ interval' = IF interval = "running" THEN "none"
                                   ELSE interval
                    /\ calibrationCount' = 0
                    /\ stream' = stream
            /\ UNCHANGED <<result, loading>>
       ELSE /\ IF ok
               THEN result' = r.no /\ error' = error
               ELSE error' = r.no /\ result' = result
            /\ loading' = FALSE
            /\ UNCHANGED <<isScanning, interval, calibrationCount, stream>>
    /\ pending' = pending \ {r}
    /\ lastOp' = Op("settleScan", NoAlert)
    /\ UNCHANGED <<now, storage, timers, nextTimerId, currentUser,
                   currentPage, reminders, medName, medTime, loadCount,
                   nextRequest, showPrompt, showAnalysis>>
    /\ UNCHANGED hospitalVars

\* ------------------------------------------------------------------------
\* Texts the record of a user can hold that this version of ProfilePage did
\* not write (the storage is shared by every script and every version of the
\* origin, and can be edited by hand): a text that is not JSON, an entry
\* without time, such an entry after a good one, a time that is no "HH:MM".
DamagedTexts ==
    LET id == CHOOSE t \in Instants : \A u \in Instants : t <= u
        good == <<id, "Aspirin", <<"0", "9", ":", "3", "0">>>>
    IN  { << <<"[{">> >>,
          << <<id, "Aspirin">> >>,
          << good, <<id, "Aspirin">> >>,
          << <<id, "Aspirin", <<"s", "o", "o", "n">>>> >> }

\* The record of the logged-in user is replaced while ProfilePage is not
\* rendered.
Tamper(text) ==
    /\ currentUser # <<>>
    /\ ~ProfileMounted
    /\ storage' = [storage EXCEPT ![RemindersKey(currentUser)] = Item(text)]
    /\ lastOp' = Op("tamper", NoAlert)
    /\ UNCHANGED <<now, timers, nextTimerId, currentUser, currentPage,
                   reminders, medName, medTime, loadCount>>
    /\ UNCHANGED formVars
    /\ UNCHANGED hospitalVars
    /\ UNCHANGED biometricVars

\* ------------------------------------------------------------------------
\* Specification
\* ------------------------------------------------------------------------
\* The ids removeReminder is called with: those of the list (its Delete
\* buttons) and one that no reminder has.
UnknownIds == {0}

RemovableIds == {reminders[i].id : i \in 1..Len(reminders)} \cup UnknownIds

\* The instants of day 0.
FirstDay == {t \in Instants : t < MsPerDay}

\* The events, the writes to localStorage succeeding (TRUE) or throwing
\* (FALSE) as `oks` allows, the clock observed at `instants`, the usernames
\* typed from `typedNames` and the medication names from `names`.
Step(oks, instants, typedNames, names) ==
    \/ \E t \in instants : Advance(t)
    \/ \E t \in timers : Fire(t)
    \/ Restart
    \/ \E typed \in typedNames : Login(typed)
    \/ Logout
    \/ \E ok1, ok2 \in oks : OpenProfile(ok1, ok2)
    \/ \E page \in Pages : LeaveTo(page)
    \/ \E v \in names \cup {""} : SetMedName(v)
    \/ \E v \in TimeValues \cup {EmptyTime} : SetMedTime(v)
    \/ AddRejected
    \/ \E ok \in oks : AddReminder(ok)
    \/ \E id \in RemovableIds, ok \in oks : RemoveReminder(id, ok)

\* localStorage never fails.
Next == Step({TRUE}, Instants, TypedUsernames, Names)

Spec == Init /\ [][Next]_vars

\* localStorage.setItem may throw (quota exceeded, storage disabled); the
\* behaviours of one day.
NextFail == Step(BOOLEAN, FirstDay, TypedUsernames, Names)

SpecFail == Init /\ [][NextFail]_vars

\* Two accounts use the application in the same browser; the behaviours of
\* one day.
NextUsers ==
    Step({TRUE}, FirstDay, TypedUsernames \cup OtherTypedUsernames, Names)

SpecUsers == Init /\ [][NextUsers]_vars

\* Two medications; the behaviours of one day.
NextNames == Step({TRUE}, FirstDay, TypedUsernames, Names \cup OtherNames)

SpecNames == Init /\ [][NextNames]_vars

\* The record of a user may be replaced from outside; the behaviours of one
\* day.
NextDamaged ==
    \/ Step({TRUE}, FirstDay, TypedUsernames, Names)
    \/ \E text \in DamagedTexts : Tamper(text)

SpecDamaged == Init /\ [][NextDamaged]_vars

\* Times of day from the first to the last minute of the day: "00:00",
\* "09:30", "23:59".
DelayTimes ==
    {<<"0", "0", ":", "0", "0">>, <<"0", "9", ":", "3", "0">>,
     <<"2", "3", ":", "5", "9">>}

\* Instants of day 0 around these times, to the millisecond: midnight, one
\* millisecond before, at and after 09:30, the last millisecond of the day.
DelayInstants ==
    {0, 9 * MsPerHour + 30 * MsPerMinute - 1, 9 * MsPerHour + 30 * MsPerMinute,
     9 * MsPerHour + 30 * MsPerMinute + 1, MsPerDay - 1}

\* The application is opened at any of these instants.
InitDelay ==
    /\ now \in DelayInstants
    /\ storage = [k \in StorageKeys |-> NULL]
    /\ timers = {}
    /\ nextTimerId = 1
    /\ currentUser = <<>>
    /\ currentPage = NoPage
    /\ reminders = <<>>
    /\ medName = ""
    /\ medTime = EmptyTime
    /\ loadCount = 0
    /\ lastOp = Op("init", NoAlert)
    /\ loading = FALSE
    /\ result = NoOutcome
    /\ error = NoOutcome
    /\ pending = {}
    /\ nextRequest = 1
    /\ zone = 0
    /\ hospitals = FALSE
    /\ selectedHospital = NoHospital
    /\ isBooking = FALSE
    /\ confirmation = NoConfirmation
    /\ reminderSet = FALSE
    /\ isScanning = FALSE
    /\ showPrompt = FALSE
    /\ showAnalysis = FALSE
    /\ interval = "none"
    /\ calibrationCount = 0
    /\ stream = FALSE

\* Reminders for these times are added and, when the profile page is opened
\* again, loaded at these instants; no timer is taken away before the page
\* is reloaded.
NextDelay ==
    \/ \E t \in DelayInstants : Advance(t)
    \/ Restart
    \/ \E typed \in TypedUsernames : Login(typed)
    \/ OpenProfile(TRUE, TRUE)
    \/ \E page \in Pages : LeaveTo(page)
    \/ \E v \in Names : SetMedName(v)
    \/ \E v \in DelayTimes : SetMedTime(v)
    \/ AddReminder(TRUE)

SpecDelay == InitDelay /\ [][NextDelay]_vars

\* The forms: login, logout, page reload, navigation between the home page
\* and the forms, uploads, submissions and the settling of their requests.
NextForms ==
    \/ \E typed \in TypedUsernames : Login(typed)
    \/ Logout
    \/ Restart
    \/ \E page \in AIPages \cup SubmitPages \cup {"home"} : LeaveTo(page)
    \/ \E kind \in {"image", "report", "unsupported"} : UploadFile(kind)
    \/ \E r \in pending, ok \in BOOLEAN : Settle(r, ok)
    \/ SubmitPrompt
    \/ \E r \in pending, ok \in BOOLEAN : SettlePrompt(r, ok)
    \/ SubmitOrder
    \/ \E r \in pending, ok \in BOOLEAN : SettleOrder(r, ok)

SpecForms == Init /\ [][NextForms]_vars

\* NearbyHospitals in each time zone: the clock on the grid, one user,
\* searches and bookings settling either way.
InitHospitals ==
    /\ now = 9 * MsPerHour - 1
    /\ storage = [k \in StorageKeys |-> NULL]
    /\ timers = {}
    /\ nextTimerId = 1
    /\ currentUser = <<>>
    /\ currentPage = NoPage
    /\ reminders = <<>>
    /\ medName = ""
    /\ medTime = EmptyTime
    /\ loadCount = 0
    /\ lastOp = Op("init", NoAlert)
    /\ loading = FALSE
    /\ result = NoOutcome
    /\ error = NoOutcome
    /\ pending = {}
    /\ nextRequest = 1
    /\ zone \in Zones
    /\ hospitals = FALSE
    /\ selectedHospital = NoHospital
    /\ isBooking = FALSE
    /\ confirmation = NoConfirmation
    /\ reminderSet = FALSE
    /\ isScanning = FALSE
    /\ showPrompt = FALSE
    /\ showAnalysis = FALSE
    /\ interval = "none"
    /\ calibrationCount = 0
    /\ stream = FALSE

NextHospitals ==
    \/ \E t \in HospitalInstants : Advance(t)
    \/ \E t \in timers : FireAppointment(t)
    \/ Restart
    \/ Login(<<"a">>)
    \/ \E page \in {"hospitals", "home"} : LeaveTo(page)
    \/ SearchHospitals
    \/ \E r \in pending, ok \in BOOLEAN : SettleSearch(r, ok)
    \/ \E h \in HospitalNames : SelectHospital(h)
    \/ CancelBooking
    \/ \E date \in BookingDates, time \in TimeSlots : BookAppointment(date, time)
    \/ \E r \in pending, ok \in BOOLEAN : SettleBooking(r, ok)
    \/ HandleSetReminder

SpecHospitals == InitHospitals /\ [][NextHospitals]_vars

\* BiometricScanner: two users logging in and out, the clock on the first
\* day, the camera and the model answering either way.
NextBiometric ==
    \/ \E t \in FirstDay : Advance(t)
    \/ \E typed \in TypedUsernames \cup OtherTypedUsernames : Login(typed)
    \/ Logout
    \/ Restart
    \/ \E page \in {"biometric", "home"} : LeaveTo(page)
    \/ StartScan
    \/ CalibrationTick
    \/ ShowPrompt
    \/ HandleNo
    \/ HandleProceed
    \/ SubmitAnalysis
    \/ \E r \in pending, ok \in BOOLEAN : SettleScan(r, ok)

SpecBiometric == Init /\ [][NextBiometric]_vars

\* ------------------------------------------------------------------------
\* Vocabulary of the properties
\* ------------------------------------------------------------------------
\* The persisted record of the logged-in user.
CurrentRecord == storage[RemindersKey(currentUser)]

\* The entries of a persisted record; a record that does not exist has none.
RecordEntries(item) == IF item = NULL THEN <<>> ELSE ValueOf(item)

\* This step mounts ProfilePage: its load effect runs.
ProfileMountsNext == ~ProfileMounted /\ ProfileMounted'

\* The pending timers created for the reminder with this id.
TimersOf(ts, id) == {t \in ts : t.id = id}

\* The time of day "HH:MM" in ms after midnight, read digit by digit.
ClockTime(time) ==
    (DigitValue(time[1]) * 10 + DigitValue(time[2])) * MsPerHour
        + (DigitValue(time[4]) * 10 + DigitValue(time[5])) * MsPerMinute

\* The next occurrence of the time of day at or after the instant `at`:
\* today if it has not passed, else tomorrow.
Occurrence(time, at) ==
    LET today == (at \div MsPerDay) * MsPerDay + ClockTime(time)
    IN  IF today >= at THEN today ELSE today + MsPerDay

\* The entries of a persisted record are those of the list, in its order.
SameEntries(text, list) ==
    /\ Len(text) = Len(list)
    /\ \A i \in 1..Len(list) :
           /\ text[i][1] = list[i].id
           /\ text[i][2] = list[i].name
           /\ text[i][3] = list[i].time

\* ------------------------------------------------------------------------
\* C1 - every reminder of the active collection has exactly one pending
\* timer, in every reachable state.
\* ------------------------------------------------------------------------
C1_ExactlyOnePendingTimer ==
    ProfileMounted =>
        \A i \in 1..Len(reminders) :
            Cardinality(TimersOf(timers, reminders[i].id)) = 1

\* ------------------------------------------------------------------------
\* C2 - a reminder that stays in the collection fires every day: when its
\* timer fires, a timer for the same time on the next day is pending.
\* ------------------------------------------------------------------------
C2_RearmedAfterFiring ==
    [][\A t \in timers :
          (/\ Fire(t)
           /\ ProfileMounted
           /\ \E i \in 1..Len(reminders) : reminders[i].id = t.id)
          => \E u \in timers' : u.id = t.id /\ u.fireAt = t.fireAt + MsPerDay]_vars

\* ------------------------------------------------------------------------
\* C3 - after removeReminder(id) no pending timer refers to id.
\* ------------------------------------------------------------------------
C3_NoTimerAfterRemove ==
    [][\A id \in RemovableIds :
          (\E ok \in BOOLEAN : RemoveReminder(id, ok))
          => TimersOf(timers', id) = {}]_vars

\* ------------------------------------------------------------------------
\* C4 - every timer, set by addReminder or by the load path, is due at the
\* reminder's time today when that has not passed at the instant of
\* scheduling, and at that time tomorrow when it has.
\* ------------------------------------------------------------------------
C4_NextOccurrence ==
    \A t \in timers : t.fireAt = Occurrence(t.time, t.setAt)

\* A timer set by addReminder for later today is pending together with a
\* timer the load path set for tomorrow.
C4_Witness ==
    \E t, u \in timers :
        /\ t.setAt = t.id
        /\ t.fireAt > t.setAt
        /\ t.fireAt \div MsPerDay = t.setAt \div MsPerDay
        /\ u.setAt > u.id
        /\ u.fireAt \div MsPerDay = u.setAt \div MsPerDay + 1

\* ------------------------------------------------------------------------
\* C5 - loading a persisted list of N reminders sets exactly N timers, one
\* per entry, each due at the next occurrence of the entry's time after the
\* instant of loading.
\* ------------------------------------------------------------------------
C5_LoadSchedulesEachEntry ==
    [][(ProfileMountsNext /\ CurrentRecord # NULL)
          => LET text == ValueOf(CurrentRecord)
                 new == timers' \ timers
             IN  /\ Cardinality(new) = Len(text)
                 /\ \A i \in 1..Len(text) :
                        \E t \in new :
                            /\ t.handle = reminders'[i].timeoutId
                            /\ t.id = text[i][1]
                            /\ t.setAt = now
                            /\ t.fireAt = Occurrence(text[i][3], now)]_vars

\* Two reminders created earlier have just been loaded: both timers were set
\* at this instant.
C5_Witness ==
    /\ ProfileMounted
    /\ Len(reminders) = 2
    /\ \A i \in 1..2 :
           /\ reminders[i].id < now
           /\ \E t \in timers : t.handle = reminders[i].timeoutId /\ t.setAt = now

\* ------------------------------------------------------------------------
\* C6 - within one session the load effect runs once, however often the
\* user navigates between pages.
\* ------------------------------------------------------------------------
C6_LoadsOncePerSession == loadCount <= 1

\* ------------------------------------------------------------------------
\* C7 - while no write fails, the persisted record of the current user holds
\* exactly the entries of the in-memory collection, in the same order, once
\* the effects of an add or a remove have run.
\* ------------------------------------------------------------------------
C7_RecordMatchesMemory ==
    ProfileMounted =>
        /\ CurrentRecord # NULL
        /\ SameEntries(ValueOf(CurrentRecord), reminders)

\* A reminder has just been removed and another one is left.
C7_Witness ==
    /\ ProfileMounted
    /\ lastOp.op = "removeReminder"
    /\ Len(reminders) = 1

\* ------------------------------------------------------------------------
\* C8 - reloading a persisted list yields the same reminders (ids, names and
\* times, in order); only the timer handles are new.
\* ------------------------------------------------------------------------
C8_ReloadRoundTrip ==
    [][(ProfileMountsNext /\ CurrentRecord # NULL)
          => /\ SameEntries(ValueOf(CurrentRecord), reminders')
             /\ \A i \in 1..Len(reminders') :
                    /\ reminders'[i].timeoutId >= nextTimerId
                    /\ reminders'[i].timeoutId < nextTimerId'
                    /\ \A j \in 1..Len(reminders') :
                           i # j => reminders'[i].timeoutId # reminders'[j].timeoutId]_vars

\* Two reminders with different ids are in memory, each with a timer that
\* was set after the reminder was created: they were reloaded.
C8_Witness ==
    /\ ProfileMounted
    /\ Len(reminders) = 2
    /\ reminders[1].id # reminders[2].id
    /\ \A i \in 1..2 :
           \E t \in timers :
               t.handle = reminders[i].timeoutId /\ t.setAt > reminders[i].id

\* ------------------------------------------------------------------------
\* C9 - the ids of the reminders of the collection are pairwise different.
\* ------------------------------------------------------------------------
C9_UniqueIds ==
    \A i, j \in 1..Len(reminders) :
        i # j => reminders[i].id # reminders[j].id

\* ------------------------------------------------------------------------
\* C10 - removeReminder with an id that is not in the collection leaves the
\* in-memory collection, the pending timers and the content of the
\* persisted records as they were.
\* ------------------------------------------------------------------------
C10_RemoveUnknownChangesNothing ==
    [][\A id \in RemovableIds, ok \in BOOLEAN :
          (RemoveReminder(id, ok) /\ FindIndex(reminders, id) = 0)
          => /\ reminders' = reminders
             /\ timers' = timers
             /\ \A k \in StorageKeys :
                    RecordEntries(storage'[k]) = RecordEntries(storage[k])]_vars

\* C10 as amended - removeReminder with an id that is not in the collection
\* leaves the in-memory collection and the pending timers as they were; the
\* persisted record of the current user keeps its content or is rewritten
\* from the collection, so its content is unchanged when it already held the
\* collection's entries; no other record changes.
C10_RemoveUnknownKeepsMemoryAndTimers ==
    [][\A id \in RemovableIds, ok \in BOOLEAN :
          (RemoveReminder(id, ok) /\ FindIndex(reminders, id) = 0)
          => /\ reminders' = reminders
             /\ timers' = timers
             /\ \A k \in StorageKeys :
                    k # RemindersKey(currentUser) => storage'[k] = storage[k]
             /\ \/ RecordEntries(CurrentRecord') = RecordEntries(CurrentRecord)
                \/ SameEntries(RecordEntries(CurrentRecord'), reminders)
             /\ SameEntries(RecordEntries(CurrentRecord), reminders)
                => RecordEntries(CurrentRecord') = RecordEntries(CurrentRecord)]_vars

\* removeReminder has just been called with an unknown id while a reminder
\* with a pending timer is in the collection.
C10_Witness ==
    /\ ProfileMounted
    /\ lastOp.op = "removeUnknown"
    /\ Len(reminders) >= 1
    /\ TimersOf(timers, reminders[1].id) # {}

\* ------------------------------------------------------------------------
\* C11 - removeReminder for one reminder leaves every other reminder of the
\* collection untouched: it stays in memory and in the persisted record, and
\* its pending timer stays as it was.
\* ------------------------------------------------------------------------
C11_RemoveLeavesOthers ==
    [][\A id \in RemovableIds :
          (RemoveReminder(id, TRUE) /\ FindIndex(reminders, id) # 0)
          => \A i \in 1..Len(reminders) :
                 i # FindIndex(reminders, id)
                 => /\ \E j \in 1..Len(reminders') : reminders'[j] = reminders[i]
                    /\ \E j \in 1..Len(RecordEntries(CurrentRecord')) :
                           SameEntries(<<RecordEntries(CurrentRecord')[j]>>,
                                       <<reminders[i]>>)
                    /\ \A t \in timers :
                           t.handle = reminders[i].timeoutId => t \in timers']_vars

\* ------------------------------------------------------------------------
\* C12 - submitting the add form while the name or the time is empty changes
\* nothing: no timer is set, the collection and the persisted records are as
\* before, and the two fields keep their values.
\* ------------------------------------------------------------------------
C12_RejectedAddChangesNothing ==
    [][(/\ ProfileMounted
        /\ medName = "" \/ medTime = EmptyTime
        /\ AddRejected \/ \E ok \in BOOLEAN : AddReminder(ok))
          => UNCHANGED <<storage, timers, nextTimerId, reminders, medName,
                         medTime, currentUser, currentPage>>]_vars

\* The form has just been submitted with a name and no time, a reminder
\* being in the collection: the name is still in its field.
C12_Witness ==
    /\ ProfileMounted
    /\ lastOp.op = "addRejected"
    /\ medName # ""
    /\ medTime = EmptyTime
    /\ Len(reminders) = 1
    /\ TimersOf(timers, reminders[1].id) # {}

\* The keys of the persisted reminder records.
ReminderKeys == StorageKeys \ {CurrentUserKey}

\* ------------------------------------------------------------------------
\* C13 - every entry of every persisted reminder record consists of id, name
\* and time only: no timer handle is ever written to localStorage.
\* ------------------------------------------------------------------------
C13_RecordsHoldNoHandle ==
    \A k \in ReminderKeys :
        \A i \in 1..Len(RecordEntries(storage[k])) :
            LET entry == RecordEntries(storage[k])[i]
            IN  /\ Len(entry) = 3
                /\ entry[1] \in Instants
                /\ entry[2] \in Names
                /\ entry[3] \in TimeValues

\* A record holds two entries while both reminders have a timer handle in
\* memory.
C13_Witness ==
    /\ ProfileMounted
    /\ Len(reminders) = 2
    /\ Len(RecordEntries(CurrentRecord)) = 2
    /\ reminders[1].timeoutId # reminders[2].timeoutId
    /\ \A i \in 1..2 : \E t \in timers : t.handle = reminders[i].timeoutId

\* ------------------------------------------------------------------------
\* C14 - a write to localStorage that throws does not abort addReminder or
\* removeReminder: the add still appends the new reminder to the collection
\* with its timer pending, the remove still clears the reminder's timer and
\* takes the reminder out of the collection; the user is shown nothing.
\* ------------------------------------------------------------------------
C14_FailedWriteDoesNotAbort ==
    [][/\ AddReminder(FALSE)
          => /\ Len(reminders') = Len(reminders) + 1
             /\ SubSeq(reminders', 1, Len(reminders)) = reminders
             /\ LET r == reminders'[Len(reminders')]
                IN  /\ r.name = medName
                    /\ r.time = medTime
                    /\ \E t \in timers' \ timers : t.handle = r.timeoutId
             /\ lastOp'.msg = NoAlert
       /\ \A id \in RemovableIds :
              (RemoveReminder(id, FALSE) /\ FindIndex(reminders, id) # 0)
              => /\ \A i \in 1..Len(reminders') : reminders'[i].id # id
                 /\ \A t \in timers' :
                        t.handle # reminders[FindIndex(reminders, id)].timeoutId
                 /\ lastOp'.msg = NoAlert]_vars

\* A reminder has just been removed from memory and its timer cleared while
\* the write failed: the record still holds the entry.
C14_Witness ==
    /\ ProfileMounted
    /\ lastOp.op = "removeReminder"
    /\ reminders = <<>>
    /\ Len(RecordEntries(CurrentRecord)) = 1
    /\ TimersOf(timers, RecordEntries(CurrentRecord)[1][1]) = {}

\* ------------------------------------------------------------------------
\* C15 - the persisted reminder records are isolated per user: no step
\* changes the record of a user other than the one logged in, and what the
\* load effect gives a user consists of the entries of that user's own
\* record and does not depend on any other user's record.
\* ------------------------------------------------------------------------
C15_RecordsIsolated ==
    [][/\ \A u \in Users :
              u # currentUser
              => storage'[RemindersKey(u)] = storage[RemindersKey(u)]
       /\ ProfileMountsNext
              => /\ SameEntries(RecordEntries(storage[RemindersKey(currentUser')]),
                                reminders')
                 /\ \A u \in Users \ {currentUser'} :
                        reminders' =
                            LoadEffect([storage EXCEPT ![RemindersKey(u)] = NULL],
                                       currentUser', now, nextTimerId).list]_vars

\* Both users have a record with one reminder, the two records differ, and
\* one of the users has just loaded theirs.
C15_Witness ==
    /\ ProfileMounted
    /\ Len(reminders) = 1
    /\ \E t \in timers : t.handle = reminders[1].timeoutId /\ t.setAt > reminders[1].id
    /\ \A u \in Users : Len(RecordEntries(storage[RemindersKey(u)])) = 1
    /\ \A u, v \in Users :
           u # v => storage[RemindersKey(u)] # storage[RemindersKey(v)]
    /\ Cardinality(Users) = 2

\* ------------------------------------------------------------------------
\* C16 - a timer that fires only notifies: the message names the medication
\* of the reminder the timer belongs to, and the collection, the form, the
\* persisted records and every other pending timer are as before.
\* ------------------------------------------------------------------------
C16_FiringOnlyNotifies ==
    [][\A t \in timers :
          Fire(t)
          => /\ UNCHANGED <<reminders, storage, medName, medTime, currentUser,
                            currentPage, nextTimerId>>
             /\ timers' = timers \ {t}
             /\ lastOp'.msg \in {Message(n) : n \in Names \cup OtherNames}
             /\ \A i \in 1..Len(reminders) :
                    reminders[i].timeoutId = t.handle
                    => lastOp'.msg = Message(reminders[i].name)]_vars

\* The timer of the first of two reminders for different medications has
\* just fired; the timer of the second one is pending.
C16_Witness ==
    /\ ProfileMounted
    /\ lastOp.op = "fire"
    /\ Len(reminders) = 2
    /\ reminders[1].name # reminders[2].name
    /\ lastOp.msg = Message(reminders[1].name)
    /\ \A t \in timers : t.handle # reminders[1].timeoutId
    /\ \E t \in timers : t.handle = reminders[2].timeoutId

\* The latest upload to the mounted form.
LatestRequest == nextRequest - 1

\* ------------------------------------------------------------------------
\* C17 - when a form is given a newer file while an older upload is still
\* awaited, the older upload's outcome is discarded: once nothing is awaited
\* any more, the result or error on display is that of the latest upload and
\* of no other.
\* ------------------------------------------------------------------------
C17_LatestUploadWins ==
    (FormMounted /\ pending = {} /\ LatestRequest >= 1)
        => /\ result \in {NoOutcome, LatestRequest}
           /\ error \in {NoOutcome, LatestRequest}
           /\ result = LatestRequest \/ error = LatestRequest

\* The positions of the list whose reminder has another id than `id`.
Others(list, id) == {i \in 1..Len(list) : list[i].id # id}

\* `kept` holds the reminders of `list` with another id than `id`, in order.
IsRestOf(kept, list, id) ==
    /\ Len(kept) = Cardinality(Others(list, id))
    /\ \A i \in 1..Len(kept) :
           \E k \in Others(list, id) :
               /\ kept[i] = list[k]
               /\ Cardinality({j \in Others(list, id) : j < k}) = i - 1

C19_FiresOnlyForActiveCollection ==
    [][\A t \in timers :
          Fire(t)
          => /\ ProfileMounted
             /\ \E i \in 1..Len(reminders) :
                    reminders[i].timeoutId = t.handle /\ reminders[i].id = t.id]_vars

\* JSON.parse or the load effect's map over the entries fails on this text,
\* or the time of an entry is not a time of day.
FailsToLoad(text) ==
    \/ ~IsJSON(text)
    \/ \E i \in 1..Len(text) :
           \/ Len(text[i]) < 3
           \/ HoursOf(text[i][3]) = NaN
           \/ MinutesOf(text[i][3]) = NaN

\* ------------------------------------------------------------------------
\* C20 - when the persisted record cannot be read (it is not JSON, or an
\* entry has no time or a malformed one), loading leaves the collection
\* empty, sets no timer and leaves the persisted record as it is.
\* ------------------------------------------------------------------------
C20_FailedLoadChangesNothing ==
    [][(/\ ProfileMountsNext
        /\ CurrentRecord # NULL
        /\ FailsToLoad(ValueOf(CurrentRecord)))
          => /\ reminders' = <<>>
             /\ timers' = timers
             /\ CurrentRecord' = CurrentRecord]_vars

\* The delay a pending timer was set with.
DelayOf(t) == t.fireAt - t.setAt

\* ------------------------------------------------------------------------
\* C21 - for every time of day HH:MM and every instant, the delay of the
\* timer that addReminder or the load path sets is at least 0 and less than
\* 24 hours, and it is 0 only when the time of day is the instant of
\* scheduling itself: the timer is then due today.
\* ------------------------------------------------------------------------
C21_DelayWithinADay ==
    \A t \in timers :
        /\ DelayOf(t) >= 0
        /\ DelayOf(t) < MsPerDay
        /\ DelayOf(t) = 0 <=> t.setAt % MsPerDay = ClockTime(t.time)
        /\ t.fireAt % MsPerDay = ClockTime(t.time)

\* A timer set by addReminder at the very instant of its time is pending
\* with delay 0 beside a timer the load path set one millisecond after the
\* entry's time, with a delay of one millisecond less than a day.
C21_Witness ==
    \E t, u \in timers :
        /\ t.setAt = t.id
        /\ DelayOf(t) = 0
        /\ u.setAt > u.id
        /\ DelayOf(u) = MsPerDay - 1

\* ------------------------------------------------------------------------
\* C22 - every order submission of MedicineDelivery clears the loading flag
\* when its request has succeeded or failed, whatever happened to earlier
\* submissions: with no request awaited the flag is false and the 'Place
\* Order' button enabled.
\* ------------------------------------------------------------------------
C22_OrderClearsLoading ==
    (DeliveryMounted /\ pending = {}) => ~loading

\* ------------------------------------------------------------------------
\* C23 - in PrescriptionScanner, MedicalImagingAnalyzer and MedicalAssistant
\* the loading flag is true exactly while a request the form started is
\* awaited: with overlapping uploads it stays true until both have settled.
\* ------------------------------------------------------------------------
C23_LoadingWhileAwaited ==
    (FormMounted \/ AssistantMounted) => (loading <=> pending # {})

\* The durable 'currentUser' entry.
CurrentUserEntry == storage[CurrentUserKey]

AppointmentInstant(details) ==
    details.date * MsPerDay + ClockTime(details.time)

\* The step is a call of handleSetReminder.
SetReminderCalled ==
    lastOp'.op \in {"setReminder", "reminderRefused", "noConfirmation"}

\* C25 - in NearbyHospitals reminderSet is true only if a reminder timer was
\* scheduled for the confirmation displayed: a booking confirmed after a
\* reminder was set for an earlier one is displayed with reminderSet false,
\* so that a reminder can be set for it too.
C25_LaterBookingStartsUnset ==
    [][(HospitalsMounted /\ confirmation' # confirmation
            /\ confirmation' # NoConfirmation)
           => ~reminderSet']_vars

\* C26 - handleSetReminder schedules an appointment-reminder timer if and
\* only if the instant 24 hours before the appointment is strictly later than
\* now; otherwise no timer is scheduled, reminderSet stays false and the user
\* is told that the reminder cannot be set; without a confirmation the call
\* changes nothing.
C26_ReminderIffADayAhead ==
    [][SetReminderCalled =>
           IF confirmation = NoConfirmation
           THEN UNCHANGED <<timers, nextTimerId, reminderSet, confirmation>>
           ELSE IF AppointmentInstant(confirmation[1]) - MsPerDay > now
                THEN /\ \E t \in timers' \ timers :
                            /\ t.handle = nextTimerId
                            /\ timers' = timers \cup {t}
                     /\ reminderSet'
                ELSE /\ timers' = timers
                     /\ ~reminderSet'
                     /\ lastOp'.msg = RefusedMsg]_vars

\* C27 - clicking Start Biometric Analysis while not scanning leads to a
\* camera stream being requested (and then, access granted, to frames being
\* sent to the pose estimator; access denied, to the not-scanning state with
\* an error message): the click that starts the scan leaves a request for the
\* camera awaited.
C27_StartRequestsCamera ==
    [][(BiometricMounted /\ ~isScanning /\ isScanning')
           => \E r \in pending' : r.kind = "camera"]_vars
=============================================================================
